---- MODULE Spec2Model ----
(***************************************************************************)
(* A model of the naive Bayes sentiment classifier of go-naive-bayes:      *)
(* the tokenizer (tokenizer.go) and the classifier (main.go).              *)
(*                                                                         *)
(* Strings are sequences of one-character strings.  float64 values are     *)
(* pairs [num, den] of naturals: den > 0 is the finite non-negative        *)
(* rational num/den in lowest terms, [1, 0] is +Inf and [0, 0] is NaN      *)
(* (no negative value arises in the program).  Rounding is not modelled.   *)
(***************************************************************************)
EXTENDS Integers, Sequences, FiniteSets, TLC

VARIABLES
    dataset,    \* classifier.dataset: class -> sequence of sentences (a Go map)
    words,      \* classifier.words: token -> wordFrequency (a Go map)
    result,     \* what the last classify call returned
    hist,       \* the calls made on the classifier since newClassifier()
    pre,        \* dataset and words as they were before the last call
    tin,        \* tokenizer run: the sentence handed to tokenize
    toks,       \* tokenizer run: tokenize(tin)
    toks2,      \* tokenizer run: tokenize(strings.Join(toks, " "))
    tpc         \* tokenizer run: position

vars == <<dataset, words, result, hist, pre, tin, toks, toks2, tpc>>
cvars == <<dataset, words, result, hist, pre>>
tvars == <<tin, toks, toks2, tpc>>

----------------------------------------------------------------------------
(* Bounds *)

\* longest generated tokenizer input
MaxLen == 4
\* number of calls made on one classifier
MaxOps == 2

----------------------------------------------------------------------------
(* tokenizer.go *)

stopWords == {
    <<"i">>, <<"m","e">>, <<"m","y">>, <<"m","y","s","e","l","f">>, <<"w","e">>, <<"o","u","r">>,
    <<"o","u","r","s">>, <<"o","u","r","s","e","l","v","e","s">>, <<"y","o","u">>,
    <<"y","o","u","r">>, <<"y","o","u","r","s">>, <<"y","o","u","r","s","e","l","f">>,
    <<"y","o","u","r","s","e","l","v","e","s">>, <<"h","e">>, <<"h","i","m">>, <<"h","i","s">>,
    <<"h","i","m","s","e","l","f">>, <<"s","h","e">>, <<"h","e","r">>, <<"h","e","r","s">>,
    <<"h","e","r","s","e","l","f">>, <<"i","t">>, <<"i","t","s">>, <<"i","t","s","e","l","f">>,
    <<"t","h","e","y">>, <<"t","h","e","m">>, <<"t","h","e","i","r">>, <<"t","h","e","i","r","s">>,
    <<"t","h","e","m","s","e","l","v","e","s">>, <<"w","h","a","t">>, <<"w","h","i","c","h">>,
    <<"w","h","o">>, <<"w","h","o","m">>, <<"t","h","i","s">>, <<"t","h","a","t">>,
    <<"t","h","e","s","e">>, <<"t","h","o","s","e">>, <<"a","m">>, <<"i","s">>, <<"a","r","e">>,
    <<"w","a","s">>, <<"w","e","r","e">>, <<"b","e">>, <<"b","e","e","n">>,
    <<"b","e","i","n","g">>, <<"h","a","v","e">>, <<"h","a","s">>, <<"h","a","d">>,
    <<"h","a","v","i","n","g">>, <<"d","o">>, <<"d","o","e","s">>, <<"d","i","d">>,
    <<"d","o","i","n","g">>, <<"a">>, <<"a","n">>, <<"t","h","e">>, <<"a","n","d">>,
    <<"b","u","t">>, <<"i","f">>, <<"o","r">>, <<"b","e","c","a","u","s","e">>, <<"a","s">>,
    <<"u","n","t","i","l">>, <<"w","h","i","l","e">>, <<"o","f">>, <<"a","t">>, <<"b","y">>,
    <<"f","o","r">>, <<"w","i","t","h">>, <<"a","b","o","u","t">>, <<"a","g","a","i","n","s","t">>,
    <<"b","e","t","w","e","e","n">>, <<"i","n","t","o">>, <<"t","h","r","o","u","g","h">>,
    <<"d","u","r","i","n","g">>, <<"b","e","f","o","r","e">>, <<"a","f","t","e","r">>,
    <<"a","b","o","v","e">>, <<"b","e","l","o","w">>, <<"t","o">>, <<"f","r","o","m">>,
    <<"u","p">>, <<"d","o","w","n">>, <<"i","n">>, <<"o","u","t">>, <<"o","n">>, <<"o","f","f">>,
    <<"o","v","e","r">>, <<"u","n","d","e","r">>, <<"a","g","a","i","n">>,
    <<"f","u","r","t","h","e","r">>, <<"t","h","e","n">>, <<"o","n","c","e">>, <<"h","e","r","e">>,
    <<"t","h","e","r","e">>, <<"w","h","e","n">>, <<"w","h","e","r","e">>, <<"w","h","y">>,
    <<"h","o","w">>, <<"a","l","l">>, <<"a","n","y">>, <<"b","o","t","h">>, <<"e","a","c","h">>,
    <<"f","e","w">>, <<"m","o","r","e">>, <<"m","o","s","t">>, <<"o","t","h","e","r">>,
    <<"s","o","m","e">>, <<"s","u","c","h">>, <<"n","o">>, <<"n","o","r">>, <<"n","o","t">>,
    <<"o","n","l","y">>, <<"s","a","m","e">>, <<"s","o">>, <<"t","h","a","n">>, <<"t","o","o">>,
    <<"v","e","r","y">>, <<"c","a","n">>, <<"w","i","l","l">>, <<"j","u","s","t">>,
    <<"d","o","n","'","t">>, <<"s","h","o","u","l","d">>, <<"s","h","o","u","l","d","'","v","e">>,
    <<"n","o","w">>, <<"a","r","e","n","'","t">>, <<"c","o","u","l","d","n","'","t">>,
    <<"d","i","d","n","'","t">>, <<"d","o","e","s","n","'","t">>, <<"h","a","s","n","'","t">>,
    <<"h","a","v","e","n","'","t">>, <<"i","s","n","'","t">>,
    <<"s","h","o","u","l","d","n","'","t">>, <<"w","a","s","n","'","t">>,
    <<"w","e","r","e","n","'","t">>, <<"w","o","n","'","t">>, <<"w","o","u","l","d","n","'","t">>
}

isStopWord(w) == w \in stopWords

UpperCase == <<"A","B","C","D","E","F","G","H","I","J","K","L","M",
               "N","O","P","Q","R","S","T","U","V","W","X","Y","Z">>
LowerCase == <<"a","b","c","d","e","f","g","h","i","j","k","l","m",
               "n","o","p","q","r","s","t","u","v","w","x","y","z">>
Digits == {"0","1","2","3","4","5","6","7","8","9"}

Range(s) == {s[i] : i \in 1..Len(s)}

\* strings.ToLower, on one character
ToLowerChar(ch) ==
    IF ch \in Range(UpperCase)
    THEN LowerCase[CHOOSE i \in 1..26 : UpperCase[i] = ch]
    ELSE ch

\* strings.ToLower
ToLower(s) == [i \in 1..Len(s) |-> ToLowerChar(s[i])]

\* the complement of the character class of the regexp [^a-zA-Z 0-9]+
KeptChar(ch) == ch \in Range(LowerCase) \cup Range(UpperCase) \cup {" "} \cup Digits

\* re.ReplaceAllLiteralString(s, ""): every run of characters outside the
\* class is replaced by the empty string
ReplaceAllLiteralString(s) == SelectSeq(s, KeptChar)

\* every character outside the class is replaced by a space, not removed
clenup_space(sentence) ==
    LET s == ToLower(sentence)
    IN  [i \in 1..Len(s) |-> IF KeptChar(s[i]) THEN s[i] ELSE " "]

clenup(sentence) == ReplaceAllLiteralString(ToLower(sentence))

\* unicode.IsSpace on the ASCII range
IsSpace(ch) == ch \in {" ", "\t", "\n", "\r", "\f"}

RECURSIVE FieldsAcc(_, _, _)
FieldsAcc(s, cur, acc) ==
    IF s = <<>>
    THEN IF cur = <<>> THEN acc ELSE Append(acc, cur)
    ELSE IF IsSpace(Head(s))
         THEN FieldsAcc(Tail(s), <<>>, IF cur = <<>> THEN acc ELSE Append(acc, cur))
         ELSE FieldsAcc(Tail(s), Append(cur, Head(s)), acc)

\* strings.Fields: the maximal runs of non-space characters
Fields(s) == FieldsAcc(s, <<>>, <<>>)

NotStopWord(w) == ~isStopWord(w)

\* the stop-word test made on the raw field, the cleanup made afterwards
tokenize_cleanLate(sentence) ==
    LET kept == SelectSeq(Fields(sentence), NotStopWord)
    IN  [i \in 1..Len(kept) |-> clenup(kept[i])]

tokenize(sentence) == SelectSeq(Fields(clenup(sentence)), NotStopWord)

RECURSIVE Join(_, _)
\* strings.Join
Join(elems, sep) ==
    IF elems = <<>> THEN <<>>
    ELSE IF Len(elems) = 1 THEN elems[1]
    ELSE elems[1] \o sep \o Join(Tail(elems), sep)

----------------------------------------------------------------------------
(* float64, as far as the classifier uses it *)

RECURSIVE GCD(_, _)
GCD(a, b) == IF b = 0 THEN a ELSE GCD(b, a % b)

NaN == [num |-> 0, den |-> 0]
Inf == [num |-> 1, den |-> 0]

\* the float64 n/d for naturals n, d: x/0 is +Inf for x > 0 and 0/0 is NaN
Frac(n, d) ==
    IF d = 0
    THEN IF n = 0 THEN NaN ELSE Inf
    ELSE LET g == GCD(n, d) IN [num |-> n \div g, den |-> d \div g]

\* float64(n)
FromInt(n) == [num |-> n, den |-> 1]

\* a * b: NaN propagates, 0 * Inf is NaN
FMul(a, b) == Frac(a.num * b.num, a.den * b.den)

\* a / b: NaN propagates, 0/0 and Inf/Inf are NaN, x/0 is Inf, x/Inf is 0
FQuo(a, b) == Frac(a.num * b.den, a.den * b.num)

IsFinite(x) == x.den > 0

----------------------------------------------------------------------------
(* main.go *)

positive == "positive"
negative == "negative"
Class == {positive, negative}

\* a Go map read m[k]: the zero value when k is absent
MapGet(m, k, zero) == IF k \in DOMAIN m THEN m[k] ELSE zero

\* a Go map write m[k] = v
MapPut(m, k, v) == [x \in DOMAIN m \cup {k} |-> IF x = k THEN v ELSE m[x]]

EmptyMap == <<>>

newClassifier == [dataset |-> EmptyMap, words |-> EmptyMap]

addSentence(c, sentence, class) ==
    [c EXCEPT !.dataset =
        MapPut(c.dataset, class, Append(MapGet(c.dataset, class, <<>>), sentence))]

\* the counter is set to one instead of being incremented
addWord_setOne(c, word, class) ==
    LET wf == IF word \in DOMAIN c.words
              THEN c.words[word]
              ELSE [word |-> word, counter |-> [k \in Class |-> 0]]
        wf2 == [wf EXCEPT !.counter = MapPut(wf.counter, class, 1)]
    IN  [c EXCEPT !.words = MapPut(c.words, word, wf2)]

\* a new wordFrequency is given a counter for the trained class only
addWord_oneKey(c, word, class) ==
    LET wf == IF word \in DOMAIN c.words
              THEN c.words[word]
              ELSE [word |-> word, counter |-> EmptyMap]
        wf2 == [wf EXCEPT !.counter =
                   MapPut(wf.counter, class, MapGet(wf.counter, class, 0) + 1)]
    IN  [c EXCEPT !.words = MapPut(c.words, word, wf2)]

addWord(c, word, class) ==
    LET wf == IF word \in DOMAIN c.words
              THEN c.words[word]
              ELSE [word |-> word, counter |-> [k \in Class |-> 0]]
        wf2 == [wf EXCEPT !.counter =
                   MapPut(wf.counter, class, MapGet(wf.counter, class, 0) + 1)]
    IN  [c EXCEPT !.words = MapPut(c.words, word, wf2)]

RECURSIVE addWords(_, _, _)
\* the inner loop of train: addWord for every token, in order
addWords(c, ws, class) ==
    IF ws = <<>> THEN c
    ELSE addWords(addWord(c, Head(ws), class), Tail(ws), class)

\* the iteration orders of a Go map: every enumeration of its keys
Orders(m) ==
    LET n == Cardinality(DOMAIN m)
    IN  {o \in [1..n -> DOMAIN m] : \A i, j \in 1..n : o[i] = o[j] => i = j}

RECURSIVE trainFrom(_, _, _, _)
trainFrom(c, corpus, order, i) ==
    IF i > Len(order) THEN c
    ELSE LET sentence == order[i]
             class == corpus[sentence]
             c1 == addSentence(c, sentence, class)
             c2 == addWords(c1, tokenize(sentence), class)
         IN  trainFrom(c2, corpus, order, i + 1)

\* the loop is left after the first sentence
train_firstOnly(c, corpus, order) ==
    IF order = <<>> THEN c
    ELSE LET sentence == order[1]
             class == corpus[sentence]
         IN  addWords(addSentence(c, sentence, class), tokenize(sentence), class)

\* train, for the order in which range yields the keys of the corpus
train(c, corpus, order) == trainFrom(c, corpus, order, 1)

priorProb(c, class) ==
    LET classCount == FromInt(Len(MapGet(c.dataset, class, <<>>)))
        totalCount == FromInt(Len(MapGet(c.dataset, positive, <<>>))
                              + Len(MapGet(c.dataset, negative, <<>>)))
    IN  FQuo(classCount, totalCount)

RECURSIVE SumOver(_, _)
\* the sum of f[k] over the keys k in S
SumOver(S, f) ==
    IF S = {} THEN 0
    ELSE LET k == CHOOSE x \in S : TRUE
         IN  f[k] + SumOver(S \ {k}, f)

\* wordCount reads counter[positive] whatever class it is given
wordCount(c, class) ==
    SumOver(DOMAIN c.words,
            [w \in DOMAIN c.words |-> MapGet(c.words[w].counter, positive, 0)])

totalWordCount(c) == wordCount(c, positive) + wordCount(c, negative)

\* the raw count is returned
zeroOneTransform_raw(x) == x

zeroOneTransform(x) == IF x = 0 THEN 0 ELSE 1

totalDistinctWordCount(c) ==
    LET posCount == SumOver(DOMAIN c.words,
            [w \in DOMAIN c.words |->
                zeroOneTransform(MapGet(c.words[w].counter, positive, 0))])
        negCount == SumOver(DOMAIN c.words,
            [w \in DOMAIN c.words |->
                zeroOneTransform(MapGet(c.words[w].counter, negative, 0))])
    IN  posCount + negCount

RECURSIVE mulLoop(_, _, _, _)
\* the first loop of probability
mulLoop(c, ws, class, prob) ==
    IF ws = <<>> THEN prob
    ELSE LET w == Head(ws)
             count == IF w \in DOMAIN c.words
                      THEN MapGet(c.words[w].counter, class, 0)
                      ELSE 0
             factor == FQuo(FromInt(count + 1),
                            FromInt(wordCount(c, class) + totalDistinctWordCount(c)))
         IN  mulLoop(c, Tail(ws), class, FMul(prob, factor))

RECURSIVE quoLoop(_, _, _)
\* the second loop of probability
quoLoop(c, ws, prob) ==
    IF ws = <<>> THEN prob
    ELSE LET w == Head(ws)
             count == IF w \in DOMAIN c.words
                      THEN MapGet(c.words[w].counter, positive, 0)
                           + MapGet(c.words[w].counter, negative, 0)
                      ELSE 0
             factor == FQuo(FromInt(count + 1),
                            FromInt(totalWordCount(c) + totalDistinctWordCount(c)))
         IN  quoLoop(c, Tail(ws), FQuo(prob, factor))

probability(c, ws, class) ==
    quoLoop(c, ws, mulLoop(c, ws, class, priorProb(c, class)))

classify(c, sentence) ==
    LET ws == tokenize(sentence)
    IN  [positive |-> probability(c, ws, positive),
         negative |-> probability(c, ws, negative)]

----------------------------------------------------------------------------
(* The classifier as a state machine: calls made on one classifier *)

sGood3 == <<"g","o","o","d"," ","g","o","o","d"," ","g","o","o","d">>
sBad2 == <<"b","a","d"," ","b","a","d">>
sStop == <<"T","h","e",","," ","i","s","!"," ","a">>
sAwfulLine == <<"a","w","f","u","l","\n">>
sDont == <<"d","o","n","'","t">>
sRestaurant == <<"T","h","e"," ","r","e","s","t","a","u","r","a","n","t"," ","i","s"," ","e","x","c","e","l","l","e","n","t">>
good == <<"g","o","o","d">>
bad == <<"b","a","d">>

\* the sentences of the corpora handed to train
TrainSentences == {sGood3, sBad2}
\* the sentences handed to classify
ClassifySentences == {<<>>, sStop, sGood3, sAwfulLine}
\* the tokens handed to addWord directly
DirectWords == {good, bad}

\* map[string]string: every labelling of every subset of the sentences
Corpora == UNION {[S -> Class] : S \in SUBSET TrainSentences}

Cur == [dataset |-> dataset, words |-> words]

Init ==
    /\ dataset = newClassifier.dataset
    /\ words = newClassifier.words
    /\ result = <<>>
    /\ hist = <<>>
    /\ pre = newClassifier
    /\ tin = <<>>
    /\ toks = <<>>
    /\ toks2 = <<>>
    /\ tpc = "idle"

Train(corpus, order) ==
    /\ Len(hist) < MaxOps
    /\ LET c == train(Cur, corpus, order)
       IN  /\ dataset' = c.dataset
           /\ words' = c.words
    /\ pre' = Cur
    /\ hist' = Append(hist, [op |-> "train", arg |-> corpus])
    /\ UNCHANGED <<result, tvars>>

AddWord(word, class) ==
    /\ Len(hist) < MaxOps
    /\ LET c == addWord(Cur, word, class)
       IN  /\ dataset' = c.dataset
           /\ words' = c.words
    /\ pre' = Cur
    /\ hist' = Append(hist, [op |-> "addWord", arg |-> <<word, class>>])
    /\ UNCHANGED <<result, tvars>>

RECURSIVE insertAll(_, _)
insertAll(ws, tokens) ==
    IF tokens = <<>> THEN ws
    ELSE insertAll(
            IF Head(tokens) \in DOMAIN ws THEN ws
            ELSE MapPut(ws, Head(tokens),
                        [word |-> Head(tokens), counter |-> [k \in Class |-> 0]]),
            Tail(tokens))

\* the lookup of a token inserts a zero entry for a token that is absent
Classify_inserting(sentence) ==
    /\ Len(hist) < MaxOps
    /\ result' = classify(Cur, sentence)
    /\ words' = insertAll(words, tokenize(sentence))
    /\ pre' = Cur
    /\ hist' = Append(hist, [op |-> "classify", arg |-> sentence])
    /\ UNCHANGED <<dataset, tvars>>

Classify(sentence) ==
    /\ Len(hist) < MaxOps
    /\ result' = classify(Cur, sentence)
    /\ pre' = Cur
    /\ hist' = Append(hist, [op |-> "classify", arg |-> sentence])
    /\ UNCHANGED <<dataset, words, tvars>>

Next ==
    \/ \E corpus \in Corpora : \E order \in Orders(corpus) : Train(corpus, order)
    \/ \E word \in DirectWords : \E class \in Class : AddWord(word, class)
    \/ \E sentence \in ClassifySentences : Classify(sentence)

Spec == Init /\ [][Next]_vars

----------------------------------------------------------------------------
(* The tokenizer as a state machine: one sentence tokenized, its tokens    *)
(* joined with single spaces and tokenized again                           *)

TokAlphabet == {"a", "n", "A", " ", ",", "'", "\t"}

Strings(n) == UNION {[1..k -> TokAlphabet] : k \in 0..n}

TokInputs == Strings(MaxLen) \cup {sStop, sDont, sRestaurant, sGood3}

InitTok ==
    /\ dataset = newClassifier.dataset
    /\ words = newClassifier.words
    /\ result = <<>>
    /\ hist = <<>>
    /\ pre = newClassifier
    /\ tin \in TokInputs
    /\ toks = <<>>
    /\ toks2 = <<>>
    /\ tpc = "start"

Tokenize ==
    /\ tpc = "start"
    /\ toks' = tokenize(tin)
    /\ tpc' = "tokenized"
    /\ UNCHANGED <<tin, toks2, cvars>>

Rejoin ==
    /\ tpc = "tokenized"
    /\ toks2' = tokenize(Join(toks, <<" ">>))
    /\ tpc' = "rejoined"
    /\ UNCHANGED <<tin, toks, cvars>>

NextTok == Tokenize \/ Rejoin

SpecTok == InitTok /\ [][NextTok]_vars

----------------------------------------------------------------------------
(* Properties of the classifier *)

LastOp == hist[Len(hist)]
LastIs(op) == Len(hist) > 0 /\ LastOp.op = op

\* the stored counter of a token for a class, zero for an unknown token
CountOf(ws, w, class) ==
    IF w \in DOMAIN ws THEN MapGet(ws[w].counter, class, 0) ELSE 0

SetSize(ds, class) == Len(MapGet(ds, class, <<>>))

\* C1: for each class, wordCount(class) is the sum over every token of
\* the table of that token's counter for that class.
C1_WordCountPerClass ==
    \A class \in Class :
        wordCount(Cur, class)
            = SumOver(DOMAIN words, [w \in DOMAIN words |-> CountOf(words, w, class)])

\* C2: on a classifier with both sentence sets empty, priorProb returns a
\* defined value, neither NaN nor Inf.
C2_PriorProbGuarded ==
    (SetSize(dataset, positive) + SetSize(dataset, negative) = 0)
        => \A class \in Class : IsFinite(priorProb(Cur, class))

TrainedTwiceSame ==
    /\ Len(hist) = 2
    /\ hist[1].op = "train"
    /\ hist[2].op = "train"
    /\ hist[1].arg = hist[2].arg

\* C3: after train(C); train(C) on a new classifier, every counter and the
\* size of each sentence set are twice what they were after the first
\* train(C).
C3_TrainTwiceDoubles ==
    TrainedTwiceSame =>
        /\ DOMAIN words = DOMAIN pre.words
        /\ \A w \in DOMAIN words : \A class \in Class :
               CountOf(words, w, class) = 2 * CountOf(pre.words, w, class)
        /\ \A class \in Class :
               SetSize(dataset, class) = 2 * SetSize(pre.dataset, class)

C3_Witness ==
    /\ TrainedTwiceSame
    /\ DOMAIN hist[1].arg = TrainSentences
    /\ CountOf(words, good, hist[1].arg[sGood3]) = 6
    /\ CountOf(pre.words, good, hist[1].arg[sGood3]) = 3

\* C4: classify of a sentence with no tokens returns, for each class, a
\* finite score equal to the prior |set(class)| / (|set(positive)| +
\* |set(negative)|), on an untrained classifier too.
C4_NoTokenScoreIsPrior ==
    (LastIs("classify") /\ tokenize(LastOp.arg) = <<>>) =>
        \A class \in Class :
            /\ IsFinite(result[class])
            /\ result[class]
                 = Frac(SetSize(dataset, class),
                        SetSize(dataset, positive) + SetSize(dataset, negative))

\* C5: classify leaves the sentence sets and the frequency table (its keys
\* and every counter) as they were.
C5_ClassifyReadOnly ==
    LastIs("classify") => (dataset = pre.dataset /\ words = pre.words)

C5_Witness ==
    /\ LastIs("classify")
    /\ LastOp.arg = sAwfulLine
    /\ tokenize(LastOp.arg) # <<>>
    /\ \A i \in 1..Len(tokenize(LastOp.arg)) : tokenize(LastOp.arg)[i] \notin DOMAIN words
    /\ DOMAIN words # {}

\* C6: every token of the table has a counter for both classes, each a
\* natural number, and addWord(token, class) adds one to that counter of
\* that token and changes no other counter.
C6_CountersTotalAndAddWordExact ==
    /\ \A w \in DOMAIN words :
           /\ DOMAIN words[w].counter = Class
           /\ \A class \in Class : words[w].counter[class] \in Nat
    /\ LastIs("addWord") =>
           /\ DOMAIN words = DOMAIN pre.words \cup {LastOp.arg[1]}
           /\ \A w \in DOMAIN words : \A class \in Class :
                  CountOf(words, w, class)
                    = CountOf(pre.words, w, class)
                      + (IF w = LastOp.arg[1] /\ class = LastOp.arg[2] THEN 1 ELSE 0)
           /\ dataset = pre.dataset

C6_Witness ==
    /\ LastIs("addWord")
    /\ LastOp.arg = <<good, negative>>
    /\ DOMAIN pre.words = {good, bad}
    /\ CountOf(words, good, negative) = 1
    /\ CountOf(words, good, positive) = 3

\* C7: totalDistinctWordCount is the number of (token, class) pairs whose
\* counter is positive.
C7_DistinctCountsPairs ==
    totalDistinctWordCount(Cur)
        = Cardinality({p \in (DOMAIN words) \X Class : CountOf(words, p[1], p[2]) > 0})

C7_Witness ==
    /\ CountOf(words, good, positive) >= 2
    /\ CountOf(words, good, negative) >= 1
    /\ CountOf(words, bad, positive) = 0
    /\ CountOf(words, bad, negative) >= 2
    /\ totalDistinctWordCount(Cur) = 3

\* C10: the table and the set sizes that train produces, and so every
\* classify result afterwards, are the same for every order in which the
\* corpus is iterated; only the order inside a sentence set may differ.
C10_TrainOrderIndependent ==
    LastIs("train") =>
        \A order \in Orders(LastOp.arg) :
            LET c == train(pre, LastOp.arg, order)
            IN  /\ c.words = words
                /\ \A class \in Class :
                       SetSize(c.dataset, class) = SetSize(dataset, class)
                /\ \A s \in ClassifySentences : classify(c, s) = classify(Cur, s)

C10_Witness ==
    /\ LastIs("train")
    /\ DOMAIN LastOp.arg = TrainSentences
    /\ \E order \in Orders(LastOp.arg) : train(pre, LastOp.arg, order).dataset # dataset
    /\ DOMAIN words = {good, bad}

----------------------------------------------------------------------------
(* Properties of the tokenizer *)

Letters == Range(LowerCase) \cup Range(UpperCase)

RECURSIVE WrittenWordsAcc(_, _, _)
WrittenWordsAcc(s, cur, acc) ==
    IF s = <<>>
    THEN IF cur = <<>> THEN acc ELSE Append(acc, cur)
    ELSE IF Head(s) \in Letters \cup Digits \cup {"'"}
         THEN WrittenWordsAcc(Tail(s), Append(cur, Head(s)), acc)
         ELSE WrittenWordsAcc(Tail(s), <<>>, IF cur = <<>> THEN acc ELSE Append(acc, cur))

\* the words of a string as written: its maximal runs of letters, digits
\* and apostrophes; every other character is punctuation or space
WrittenWords(s) == WrittenWordsAcc(s, <<>>, <<>>)

RECURSIVE SpaceChunksAcc(_, _, _)
SpaceChunksAcc(s, cur, acc) ==
    IF s = <<>>
    THEN IF cur = <<>> THEN acc ELSE Append(acc, cur)
    ELSE IF Head(s) = " "
         THEN SpaceChunksAcc(Tail(s), <<>>, IF cur = <<>> THEN acc ELSE Append(acc, cur))
         ELSE SpaceChunksAcc(Tail(s), Append(cur, Head(s)), acc)

\* the maximal runs of characters other than the space character
SpaceChunks(s) == SpaceChunksAcc(s, <<>>, <<>>)

IsLetterOrDigit(ch) == ch \in Letters \cup Digits

\* a chunk in lower case, without its punctuation
Bare(w) == SelectSeq(ToLower(w), IsLetterOrDigit)

\* C8, as claimed: a string made only of stop-word-set entries (in either
\* case) and punctuation, in any arrangement, has no tokens.
C8_StopWordsAndPunctuationEmpty ==
    (/\ tpc = "tokenized"
     /\ \A i \in 1..Len(WrittenWords(tin)) : ToLower(WrittenWords(tin)[i]) \in stopWords)
        => toks = <<>>

\* C8, amended: a string has no tokens when each of its space-separated
\* chunks, put in lower case and stripped of every character that is not
\* a letter or a digit, is empty or an entry of the stop-word set.
C8_SpacedStopWordsEmpty ==
    (/\ tpc = "tokenized"
     /\ \A i \in 1..Len(SpaceChunks(tin)) :
            Bare(SpaceChunks(tin)[i]) \in stopWords \cup {<<>>})
        => toks = <<>>

C8_Witness ==
    /\ tpc = "tokenized"
    /\ tin = sStop
    /\ Len(SpaceChunks(tin)) = 3
    /\ \A i \in 1..3 : Bare(SpaceChunks(tin)[i]) \in stopWords
    /\ toks = <<>>

\* C9: joining tokenize(s) with single spaces and tokenizing again gives
\* tokenize(s): the same tokens in the same order.
C9_TokenizeIdempotent ==
    tpc = "rejoined" => toks2 = toks

C9_Witness ==
    /\ tpc = "rejoined"
    /\ Len(toks) >= 2
    /\ tin # Join(toks, <<" ">>)
    /\ toks2 = toks

====
